---- MODULE Spec2Model ----
(***************************************************************************)
(* Model of src/scrape.js (linktree-scraper): the retry wrapper, the       *)
(* authentication stage of main (cookie restoration with credential-login  *)
(* fallback), the scroll convergence loop, extraction, webhook delivery    *)
(* and the browser lifecycle.                                              *)
(*                                                                         *)
(* Every await of the program is one step; the browser and the network are *)
(* the environment, so every awaited call either completes or throws.      *)
(*                                                                         *)
(*   SpecRetry  retry(fn, maxRetries, delay) alone, fn scripted by the     *)
(*              environment (each invocation returns a value or throws)    *)
(*   Spec       one run of main() followed by the module's catch handler   *)
(*   SpecConv        the convergence stage on ever-growing and on          *)
(*                   oscillating height feeds                              *)
(*   SpecCookies     parseCookies on bounded cookie strings                *)
(*   SpecExtract     the extraction callback on bounded documents          *)
(*   SpecClicks      the click-count reading on bounded element texts      *)
(***************************************************************************)
EXTENDS Integers, Sequences, FiniteSets, TLC

VARIABLES
    cfg,        \* the environment variables read at lines 5-8, as "is set"
    pc,         \* position of the single thread of control
    rt,         \* the frame of the retry() call in progress (or the last one)
    which,      \* the operation that retry() is running: none/solo/login/conv
    url,        \* page.url()
    browser,    \* none / open / closed
    conv,       \* locals of the convergence closure (lines 149-157)
    resp,       \* the fetch Response held by sendToWebhook
    linkData,   \* result of the extraction (line 162)
    thrown,     \* the error travelling to main's catch/finally, or NoError
    outcome,    \* how main() settled, and the process exit status
    hist,       \* observations of what the run has done so far
    feed,       \* how the page's scrollHeight behaves from one measurement to the next
    io          \* argument and result of a pure function run on its own

vars == <<cfg, pc, rt, which, url, browser, conv, resp, linkData, thrown, outcome, hist, feed, io>>

----------------------------------------------------------------------------
\* Bounds of the model.

\* retry(fn, maxRetries, delay) is explored for maxRetries in 0..MaxRetriesArg
MaxRetriesArg == 4
\* page heights are 0, 100, ..., 100 * MaxHeightSteps
MaxHeightSteps == 3
\* a document holds at most MaxCards link cards
MaxCards == 2
\* a page whose height never settles is followed for MaxScrolls scrolls
MaxScrolls == 5
\* a cookie header string holds at most MaxCookieLen characters
MaxCookieLen == 5
\* the text of an element of a card holds at most MaxTextLen characters
MaxTextLen == 4

\* Program constants: the defaults of retry's parameters (line 14).
DefaultMaxRetries == 3
DefaultDelay == 1000

----------------------------------------------------------------------------
\* Errors. Every error is a record of one shape, so that errors compare.

Err(kind, call) == [kind |-> kind, status |-> 0, body |-> "", call |-> call]
NoError == Err("none", 0)

\* new Error(`Webhook failed: ${response.status} ${responseText}`), line 71
WebhookFailed(status, body) ==
    [kind |-> "Webhook failed", status |-> status, body |-> body, call |-> 0]

----------------------------------------------------------------------------
\* retry (lines 14-24)

NewRetry(n, d) ==
    [maxRetries |-> n, delay |-> d, i |-> 0, calls |-> 0,
     waits |-> <<>>, fnLog |-> <<>>,
     state |-> "running", result |-> "undefined", error |-> NoError]

\* line 15: the for-loop condition
RetryLoopTest(r) == r.i < r.maxRetries

RetryLastAttemptOffByOne(i, maxRetries) == i = maxRetries
RetryLastAttemptFirst(i, maxRetries) == i = 0
\* line 20: if (i === maxRetries - 1) throw error
RetryLastAttempt(i, maxRetries) == i = maxRetries - 1

RetryDelayExponential(delay, i) == delay * (2 ^ i)
\* line 21: setTimeout(resolve, delay * (i + 1))
RetryDelay(delay, i) == delay * (i + 1)

\* line 17: fn is invoked
RetryCall(r) == [r EXCEPT !.calls = @ + 1]

RetryReturnIgnored(r, v) ==
    [r EXCEPT !.fnLog = Append(@, [ok |-> TRUE, value |-> v, error |-> NoError]),
              !.i = @ + 1]
\* line 17: return await fn(), when fn's promise fulfils with v
RetryReturn(r, v) ==
    [r EXCEPT !.fnLog = Append(@, [ok |-> TRUE, value |-> v, error |-> NoError]),
              !.state = "resolved", !.result = v]

RetryCatchFirstError(r, e) ==
    LET r1 == [r EXCEPT !.fnLog = Append(@, [ok |-> FALSE, value |-> "undefined", error |-> e])]
    IN  IF RetryLastAttempt(r.i, r.maxRetries)
        THEN [r1 EXCEPT !.state = "rejected", !.error = r1.fnLog[1].error]
        ELSE [r1 EXCEPT !.waits = Append(@, RetryDelay(r.delay, r.i)), !.i = @ + 1]
\* lines 18-22: the catch block, the timer wait and the loop increment
RetryCatch(r, e) ==
    LET r1 == [r EXCEPT !.fnLog = Append(@, [ok |-> FALSE, value |-> "undefined", error |-> e])]
    IN  IF RetryLastAttempt(r.i, r.maxRetries)
        THEN [r1 EXCEPT !.state = "rejected", !.error = e]
        ELSE [r1 EXCEPT !.waits = Append(@, RetryDelay(r.delay, r.i)), !.i = @ + 1]

\* lines 15, 23-24: the loop ran out without return or throw
RetryFallOff(r) == [r EXCEPT !.state = "resolved", !.result = "undefined"]

----------------------------------------------------------------------------
\* State shared by both specifications.

NoConv == [previousHeight |-> 0, currentHeight |-> 0, measured |-> <<>>, scrolls |-> 0]
NoResp == [status |-> 0, body |-> "", read |-> FALSE]
NoOutcome == [state |-> "pending", error |-> NoError, value |-> "undefined", exitCode |-> 0]
NoHist ==
    [cookieStage |-> "none", cookieUrl |-> <<>>, loginUrl |-> <<>>,
     cookieError |-> NoError, cookieGotos |-> 0,
     loginAttempts |-> 0, loginForm |-> 0,
     convStarted |-> FALSE, convAttempts |-> 0, loopExited |-> FALSE,
     extracted |-> FALSE, posts |-> 0, answered |-> FALSE, delivered |-> FALSE,
     returned |-> "undefined",
     closeCalls |-> 0, failedIn |-> "none"]

NoCfg == [cookie |-> FALSE, email |-> FALSE, password |-> FALSE, webhook |-> FALSE]
NoIo == [fn |-> "none", input |-> <<>>, output |-> <<>>, done |-> FALSE]

----------------------------------------------------------------------------
\* SpecRetry: retry(fn, n, delay) with a scripted fn.

RetryDelays == {0, 1000}
FnResults == {"r1", "r2"}
FnErrors == {"E1", "E2"}

InitRetry ==
    /\ cfg = NoCfg
    /\ pc = "retry_head"
    /\ which = "solo"
    /\ \E n \in 0..MaxRetriesArg, d \in RetryDelays : rt = NewRetry(n, d)
    /\ url = <<>>
    /\ browser = "none"
    /\ conv = NoConv
    /\ resp = NoResp
    /\ linkData = <<>>
    /\ thrown = NoError
    /\ outcome = NoOutcome
    /\ hist = NoHist
    /\ feed = "any"
    /\ io = NoIo

\* line 15: enter the next iteration and invoke fn, or leave the loop
SoloHead ==
    /\ pc = "retry_head" /\ which = "solo"
    /\ IF RetryLoopTest(rt)
       THEN /\ rt' = RetryCall(rt)
            /\ pc' = "solo_fn"
            /\ UNCHANGED outcome
       ELSE /\ rt' = RetryFallOff(rt)
            /\ pc' = "settled"
            /\ outcome' = [outcome EXCEPT !.state = "resolved", !.value = rt'.result]
    /\ UNCHANGED <<cfg, feed, io, which, url, browser, conv, resp, linkData, thrown, hist>>

\* line 17: fn's promise fulfils
SoloFnReturns ==
    /\ pc = "solo_fn" /\ which = "solo"
    /\ \E v \in FnResults :
          /\ rt' = RetryReturn(rt, v)
          /\ IF rt'.state = "resolved"
             THEN /\ pc' = "settled"
                  /\ outcome' = [outcome EXCEPT !.state = "resolved", !.value = rt'.result]
             ELSE /\ pc' = "retry_head"
                  /\ UNCHANGED outcome
    /\ UNCHANGED <<cfg, feed, io, which, url, browser, conv, resp, linkData, thrown, hist>>

\* lines 18-22: fn's promise rejects
SoloFnThrows ==
    /\ pc = "solo_fn" /\ which = "solo"
    /\ \E k \in FnErrors :
          /\ rt' = RetryCatch(rt, Err(k, rt.calls))
          /\ IF rt'.state = "rejected"
             THEN /\ pc' = "settled"
                  /\ outcome' = [outcome EXCEPT !.state = "rejected", !.error = rt'.error]
             ELSE /\ pc' = "retry_head"
                  /\ UNCHANGED outcome
    /\ UNCHANGED <<cfg, feed, io, which, url, browser, conv, resp, linkData, thrown, hist>>

NextRetry == SoloHead \/ SoloFnReturns \/ SoloFnThrows

SpecRetry == InitRetry /\ [][NextRetry]_vars

----------------------------------------------------------------------------
\* Strings, as sequences of characters, and the string methods the program uses.

Strings(chars, n) == UNION {[1..m -> chars] : m \in 0..n}

\* The value of a destructured element that is missing.
Undefined == <<"undefined">>

RECURSIVE SplitFrom(_, _, _)
SplitFrom(str, sep, piece) ==
    IF str = <<>> THEN <<piece>>
    ELSE IF Head(str) = sep
         THEN <<piece>> \o SplitFrom(Tail(str), sep, <<>>)
         ELSE SplitFrom(Tail(str), sep, Append(piece, Head(str)))

\* String.prototype.split(sep), lines 36, 39: every occurrence of sep cuts
Split(str, sep) == SplitFrom(str, sep, <<>>)

RECURSIVE TrimStart(_)
TrimStart(str) ==
    IF str # <<>> /\ Head(str) = " " THEN TrimStart(Tail(str)) ELSE str

RECURSIVE TrimEnd(_)
TrimEnd(str) ==
    IF str # <<>> /\ str[Len(str)] = " "
    THEN TrimEnd(SubSeq(str, 1, Len(str) - 1))
    ELSE str

\* String.prototype.trim(), lines 39, 42, 43
Trim(str) == TrimEnd(TrimStart(str))

\* JavaScript truthiness of a string or undefined, line 40
Truthy(x) == x # Undefined /\ x # <<>>

----------------------------------------------------------------------------
\* Spec: one run of main() (lines 82-213) and the handler of lines 216-219.

\* A URL is its host followed by its path segments.
UrlAdmin == <<"linktr.ee", "admin", "links">>
UrlLogin == <<"linktr.ee", "login">>
UrlLoginNext == <<"linktr.ee", "login", "admin">>
UrlHome == <<"linktr.ee", "home">>
Urls == {UrlAdmin, UrlLogin, UrlLoginNext, UrlHome}

UrlIncludes(u, seg) == \E k \in 2..Len(u) : u[k] = seg

IsLoginRedirectInverted(u) == ~UrlIncludes(u, "login")
\* line 110: currentUrl.includes('/login')
IsLoginRedirect(u) == UrlIncludes(u, "login")

\* line 127 / 142: the glob '**/admin**' of page.waitForURL
MatchesAdmin(u) == UrlIncludes(u, "admin")

CredentialsMissingOnlyBoth(c) == ~c.email /\ ~c.password
CredentialsMissingInverted(c) == c.email /\ c.password
\* lines 118, 133: !LINKTREE_EMAIL || !LINKTREE_PASSWORD
CredentialsMissing(c) == ~c.email \/ ~c.password

Heights == {100 * k : k \in 0..MaxHeightSteps}

\* lines 150, 156: what document.body.scrollHeight can return after the
\* measurements m of this attempt. A page of kind "any" returns any height;
\* "grows" is a feed that is 100 higher at every measurement; "oscHigh" and
\* "oscLow" alternate between 200 and 100, starting high or low.
MeasuredHeights(f, m) ==
    CASE f = "any" -> Heights
      [] f = "grows" -> {IF m = <<>> THEN 100 ELSE m[Len(m)] + 100}
      [] f = "oscHigh" -> {IF Len(m) % 2 = 0 THEN 200 ELSE 100}
      [] f = "oscLow" -> {IF Len(m) % 2 = 0 THEN 100 ELSE 200}

HeightGrowsOrEqual(cur, prev) == cur >= prev
HeightGrowsBelowLimit(cur, prev) == cur > prev /\ cur < 300
\* line 152: while (currentHeight > previousHeight)
HeightGrows(cur, prev) == cur > prev

Statuses == {200, 299, 300, 404, 500}
Bodies == {"", "ok", "error"}

ResponseOkAlways(status) == status >= 200
\* line 70: response.ok, true for the statuses 200..299
ResponseOk(status) == status >= 200 /\ status <= 299

\* lines 75-78: sendToWebhook's catch logs and rethrows the error it caught
SendToWebhookCatch(e) == e

MainCatchSwallows(e) == NoError
\* lines 207-209: main's catch logs and rethrows the error it caught
MainCatch(e) == e

SeqsUpTo(S, n) == UNION {[1..m -> S] : m \in 0..n}

\* Text of an element. "click" stands for the five letters of that word.
TextChars == {"1", "2", ",", " ", "click"}
ExampleText == <<"1", ",", "2", "3", "4", " ", "click", "s">>
Texts == Strings(TextChars, MaxTextLen) \union {ExampleText}

Digits == {"0", "1", "2", "3", "4", "5", "6", "7", "8", "9"}
DigitValue(c) ==
    CASE c = "0" -> 0 [] c = "1" -> 1 [] c = "2" -> 2 [] c = "3" -> 3 [] c = "4" -> 4
      [] c = "5" -> 5 [] c = "6" -> 6 [] c = "7" -> 7 [] c = "8" -> 8 [] c = "9" -> 9

\* line 171: /\d+\s+clicks?/.test(text): a digit, then one or more spaces,
\* then the word click
MatchesClickPattern(text) ==
    \E i \in 1..Len(text), k \in 1..Len(text) :
        /\ i + 1 < k
        /\ text[i] \in Digits
        /\ \A m \in (i + 1)..(k - 1) : text[m] = " "
        /\ text[k] = "click"

\* lines 169-172: the descendants els of a card, in document order, each
\* with its text and whether a click selector matches it; the index of the
\* element chosen, 0 when there is none. The class selectors come first,
\* then the first element whose text matches the pattern.
SelectClickIndex(els) ==
    IF \E k \in 1..Len(els) : els[k].cls
    THEN CHOOSE k \in 1..Len(els) : els[k].cls /\ \A j \in 1..(k - 1) : ~els[j].cls
    ELSE IF \E k \in 1..Len(els) : MatchesClickPattern(els[k].text)
         THEN CHOOSE k \in 1..Len(els) :
                 /\ MatchesClickPattern(els[k].text)
                 /\ \A j \in 1..(k - 1) : ~MatchesClickPattern(els[j].text)
         ELSE 0

RECURSIVE LeadingDigits(_)
LeadingDigits(text) ==
    IF text # <<>> /\ Head(text) \in Digits
    THEN <<Head(text)>> \o LeadingDigits(Tail(text))
    ELSE <<>>

RECURSIVE AllDigits(_)
AllDigits(text) ==
    IF text = <<>> THEN Undefined
    ELSE LET rest == AllDigits(Tail(text))
         IN  IF Head(text) \in Digits
             THEN <<Head(text)>> \o (IF rest = Undefined THEN <<>> ELSE rest)
             ELSE rest

RECURSIVE FirstDigitGroup(_)
\* line 174: text.match(/(\d+)/)?.[1], the leftmost longest run of digits,
\* undefined when the text holds no digit
FirstDigitGroup(text) ==
    IF text = <<>> THEN Undefined
    ELSE IF Head(text) \in Digits THEN LeadingDigits(text)
         ELSE FirstDigitGroup(Tail(text))

RECURSIVE DigitsValue(_)
DigitsValue(ds) ==
    IF ds = <<>> THEN 0
    ELSE DigitsValue(SubSeq(ds, 1, Len(ds) - 1)) * 10 + DigitValue(ds[Len(ds)])

\* parseInt of a string of digits, or of undefined (NaN), line 174
ParseInt(x) ==
    IF x = Undefined \/ x = <<>> THEN [nan |-> TRUE, val |-> 0]
    ELSE [nan |-> FALSE, val |-> DigitsValue(x)]

\* Line 174 as written lacks the closing parenthesis of parseInt( ; it can
\* be closed in two places, and both readings are followed.
ClickReadings == {"parseInt(g || 0)", "parseInt(g) || 0"}

\* line 174: the number made of the captured group g
GroupNumber(g, reading) ==
    IF reading = "parseInt(g || 0)"
    THEN ParseInt(IF Truthy(g) THEN g ELSE <<"0">>).val
    ELSE LET r == ParseInt(g)
         IN  IF r.nan \/ r.val = 0 THEN 0 ELSE r.val

\* lines 169-174: the clicks of a card
ClickCount(els, reading) ==
    LET k == SelectClickIndex(els)
    IN  IF k = 0 THEN 0 ELSE GroupNumber(FirstDigitGroup(els[k].text), reading)

\* lines 177-179: the title element of a card, when there is one, has a
\* value (an input or textarea) or a text content
NoTitle == [present |-> FALSE, value |-> <<>>, text |-> <<>>]
TitleElements ==
    {NoTitle,
     [present |-> TRUE, value |-> <<"Shop">>, text |-> <<>>],
     [present |-> TRUE, value |-> <<>>, text |-> <<" ">>],
     [present |-> TRUE, value |-> <<>>, text |-> <<" ", "Link", " ">>]}

\* line 179: titleElement?.value || titleElement?.textContent?.trim() || ''
TitleOf(el) ==
    IF ~el.present THEN <<>>
    ELSE IF Truthy(el.value) THEN el.value ELSE Trim(el.text)

ClickElements(texts) == [cls : BOOLEAN, text : texts]
TwelveClicks == <<[cls |-> TRUE, text |-> <<"1", "2", " ", "click">>]>>

\* A link card as far as lines 169-187 read it: its title element, the href
\* of its first http anchor ('' when there is none, lines 182-183), its
\* descendants as the click search sees them, and whether reading it throws.
CardsOf(titles, clickParts) ==
    [title : titles, url : {<<>>, <<"https://a.example">>}, broken : BOOLEAN, els : clickParts]
AllCards == CardsOf(TitleElements, {<<>>, TwelveClicks})
AllDocs == SeqsUpTo(AllCards, MaxCards)

\* The cards and documents that a run of main meets.
Cards == CardsOf({NoTitle, [present |-> TRUE, value |-> <<"Shop">>, text |-> <<>>]}, {TwelveClicks})
Docs == SeqsUpTo(Cards, MaxCards)

CardKeptTitleOnly(c) == ~c.broken /\ Truthy(TitleOf(c.title))
\* lines 185-190: a card is pushed when reading it did not throw and both
\* its title and its url are truthy
CardKept(c) == ~c.broken /\ Truthy(TitleOf(c.title)) /\ Truthy(c.url)

\* lines 186: the record pushed for a card
LinkRecord(c, reading) ==
    [title |-> TitleOf(c.title), url |-> c.url, clicks |-> ClickCount(c.els, reading)]

RECURSIVE ExtractLinksStopsAtError(_, _)
ExtractLinksStopsAtError(doc, reading) ==
    IF doc = <<>> \/ Head(doc).broken THEN <<>>
    ELSE LET c == Head(doc)
             rest == ExtractLinksStopsAtError(Tail(doc), reading)
         IN  IF CardKept(c) THEN <<LinkRecord(c, reading)>> \o rest ELSE rest

RECURSIVE ExtractLinks(_, _)
\* lines 163-193: the loop over the cards, in document order
ExtractLinks(doc, reading) ==
    IF doc = <<>> THEN <<>>
    ELSE LET c == Head(doc)
             rest == ExtractLinks(Tail(doc), reading)
         IN  IF CardKept(c)
             THEN <<LinkRecord(c, reading)>> \o rest
             ELSE rest

Init ==
    /\ cfg \in [cookie : BOOLEAN, email : BOOLEAN, password : BOOLEAN, webhook : BOOLEAN]
    /\ pc = "start"
    /\ which = "none"
    /\ rt = NewRetry(DefaultMaxRetries, DefaultDelay)
    /\ url = <<>>
    /\ browser = "none"
    /\ conv = NoConv
    /\ resp = NoResp
    /\ linkData = <<>>
    /\ thrown = NoError
    /\ outcome = NoOutcome
    /\ hist = NoHist
    /\ feed = "any"
    /\ io = NoIo

\* lines 85-87: the webhook URL is required
CheckWebhookUrl ==
    /\ pc = "start"
    /\ IF ~cfg.webhook
       THEN /\ pc' = "settled"
            /\ outcome' = [outcome EXCEPT !.state = "rejected",
                                          !.error = Err("Missing required environment variable: WEBHOOK_URL", 0)]
            /\ hist' = [hist EXCEPT !.failedIn = "startup"]
       ELSE /\ pc' = "launch"
            /\ UNCHANGED <<outcome, hist>>
    /\ UNCHANGED <<cfg, feed, io, rt, which, url, browser, conv, resp, linkData, thrown>>

\* line 93: chromium.launch
Launch ==
    /\ pc = "launch"
    /\ \/ /\ browser' = "open"
          /\ pc' = "newContext"
          /\ UNCHANGED <<outcome, hist>>
       \/ /\ pc' = "settled"
          /\ outcome' = [outcome EXCEPT !.state = "rejected", !.error = Err("launch", 0)]
          /\ hist' = [hist EXCEPT !.failedIn = "startup"]
          /\ UNCHANGED browser
    /\ UNCHANGED <<cfg, feed, io, rt, which, url, conv, resp, linkData, thrown>>

\* lines 94-96: browser.newContext, outside the try block
NewContext ==
    /\ pc = "newContext"
    /\ \/ /\ pc' = "newPage"
          /\ UNCHANGED <<outcome, hist>>
       \/ /\ pc' = "settled"
          /\ outcome' = [outcome EXCEPT !.state = "rejected", !.error = Err("newContext", 0)]
          /\ hist' = [hist EXCEPT !.failedIn = "startup"]
    /\ UNCHANGED <<cfg, feed, io, rt, which, url, browser, conv, resp, linkData, thrown>>

\* line 97: context.newPage, outside the try block
NewPage ==
    /\ pc = "newPage"
    /\ \/ /\ pc' = "try"
          /\ UNCHANGED <<outcome, hist>>
       \/ /\ pc' = "settled"
          /\ outcome' = [outcome EXCEPT !.state = "rejected", !.error = Err("newPage", 0)]
          /\ hist' = [hist EXCEPT !.failedIn = "startup"]
    /\ UNCHANGED <<cfg, feed, io, rt, which, url, browser, conv, resp, linkData, thrown>>

\* lines 99-101, 130: the branch on LT_COOKIE
EnterTry ==
    /\ pc = "try"
    /\ pc' = IF cfg.cookie THEN "addCookies" ELSE "noCookie"
    /\ UNCHANGED <<cfg, feed, io, rt, which, url, browser, conv, resp, linkData, thrown, outcome, hist>>

\* lines 131-137: without a cookie the credentials are checked and the
\* login runs under retry
NoCookieLogin ==
    /\ pc = "noCookie"
    /\ IF CredentialsMissing(cfg)
       THEN /\ thrown' = MainCatch(Err("No authentication method available", 0))
            /\ pc' = "finally"
            /\ hist' = [hist EXCEPT !.failedIn = "auth"]
            /\ UNCHANGED <<rt, which>>
       ELSE /\ rt' = NewRetry(DefaultMaxRetries, DefaultDelay)
            /\ which' = "login"
            /\ pc' = "retry_head"
            /\ UNCHANGED <<thrown, hist>>
    /\ UNCHANGED <<cfg, feed, io, url, browser, conv, resp, linkData, outcome>>

AfterCookieSuccessRunsElse == "noCookie"
\* lines 114, 129-130, 144-146: when the cookie stage's try block completes,
\* the else branch is skipped and main goes on with the convergence stage
AfterCookieSuccess == "conv_start"

CookieCatchRethrows(e) == e
\* lines 116-119: the catch block logs the error e it caught and, without
\* credentials, throws a new error in its place
CookieCatchThrows(e) ==
    Err("Cookie authentication failed and no login credentials available", 0)

\* lines 115-128: the catch block of the cookie stage; e is the error it
\* caught and stage is what failed
CookieCatch(e, stage, h) ==
    IF CredentialsMissing(cfg)
    THEN /\ thrown' = MainCatch(CookieCatchThrows(e))
         /\ pc' = "finally"
         /\ hist' = [h EXCEPT !.cookieStage = stage, !.cookieError = e, !.failedIn = "auth"]
         /\ UNCHANGED <<rt, which>>
    ELSE /\ rt' = NewRetry(DefaultMaxRetries, DefaultDelay)
         /\ which' = "login"
         /\ pc' = "retry_head"
         /\ hist' = [h EXCEPT !.cookieStage = stage, !.cookieError = e]
         /\ UNCHANGED thrown

\* lines 104-105: parseCookies and context.addCookies
AddCookies ==
    /\ pc = "addCookies"
    /\ \/ /\ pc' = "cookieGoto"
          /\ UNCHANGED <<rt, which, thrown, hist>>
       \/ CookieCatch(Err("addCookies", 0), "error", hist)
    /\ UNCHANGED <<cfg, feed, io, url, browser, conv, resp, linkData, outcome>>

\* lines 106-114: page.goto of the dashboard and the login-redirect check
CookieGoto ==
    /\ pc = "cookieGoto"
    /\ \/ \E u \in Urls :
            /\ url' = u
            /\ IF IsLoginRedirect(u)
               THEN CookieCatch(Err("Cookie authentication failed - redirected to login", 0),
                                "redirect",
                                [hist EXCEPT !.cookieUrl = u, !.cookieGotos = @ + 1])
               ELSE /\ pc' = AfterCookieSuccess
                    /\ hist' = [hist EXCEPT !.cookieUrl = u, !.cookieStage = "ok",
                                            !.cookieGotos = @ + 1]
                    /\ UNCHANGED <<rt, which, thrown>>
       \/ /\ CookieCatch(Err("goto dashboard", 0), "error",
                         [hist EXCEPT !.cookieGotos = @ + 1])
          /\ UNCHANGED url
    /\ UNCHANGED <<cfg, feed, io, browser, conv, resp, linkData, outcome>>

\* line 15 for the two retry calls of main: the next attempt starts, or the
\* loop is left without return or throw
RetryHead ==
    /\ pc = "retry_head" /\ which \in {"login", "conv"}
    /\ IF RetryLoopTest(rt)
       THEN /\ rt' = RetryCall(rt)
            /\ IF which = "login"
               THEN /\ pc' = "login_goto"
                    /\ hist' = [hist EXCEPT !.loginAttempts = @ + 1]
               ELSE /\ pc' = "conv_measure0"
                    /\ hist' = [hist EXCEPT !.convAttempts = @ + 1]
       ELSE /\ rt' = RetryFallOff(rt)
            /\ pc' = IF which = "login" THEN "conv_start" ELSE "extract"
            /\ UNCHANGED hist
    /\ conv' = NoConv
    /\ UNCHANGED <<cfg, feed, io, which, url, browser, resp, linkData, thrown, outcome>>

\* lines 18-22 for an operation of main that threw e during stage
FnThrows(e, stage, h) ==
    /\ rt' = RetryCatch(rt, e)
    /\ conv' = NoConv
    /\ IF rt'.state = "rejected"
       THEN /\ thrown' = MainCatch(rt'.error)
            /\ pc' = "finally"
            /\ hist' = [h EXCEPT !.failedIn = stage]
       ELSE /\ pc' = "retry_head"
            /\ hist' = h
            /\ UNCHANGED thrown

\* line 17 for an operation of main that returned; next is where main goes on
FnReturns(next, h) ==
    /\ rt' = RetryReturn(rt, "undefined")
    /\ conv' = NoConv
    /\ hist' = h
    /\ pc' = IF rt'.state = "resolved" THEN next ELSE "retry_head"
    /\ UNCHANGED thrown

TouchForm(h) == [h EXCEPT !.loginForm = @ + 1]

\* lines 123 / 138: page.goto of the login page
LoginGoto ==
    /\ pc = "login_goto"
    /\ \/ /\ \E u \in Urls : url' = u
          /\ pc' = "login_email"
          /\ hist' = TouchForm(hist)
          /\ UNCHANGED <<rt, conv, thrown>>
       \/ /\ FnThrows(Err("goto", rt.calls), "auth", TouchForm(hist))
          /\ UNCHANGED url
    /\ UNCHANGED <<cfg, feed, io, which, browser, resp, linkData, outcome>>

\* lines 124 / 139: page.fill of the email field
LoginFillEmail ==
    /\ pc = "login_email"
    /\ \/ /\ pc' = "login_password"
          /\ hist' = TouchForm(hist)
          /\ UNCHANGED <<rt, conv, thrown>>
       \/ FnThrows(Err("fill email", rt.calls), "auth", TouchForm(hist))
    /\ UNCHANGED <<cfg, feed, io, which, url, browser, resp, linkData, outcome>>

\* lines 125 / 140: page.fill of the password field
LoginFillPassword ==
    /\ pc = "login_password"
    /\ \/ /\ pc' = "login_click"
          /\ hist' = TouchForm(hist)
          /\ UNCHANGED <<rt, conv, thrown>>
       \/ FnThrows(Err("fill password", rt.calls), "auth", TouchForm(hist))
    /\ UNCHANGED <<cfg, feed, io, which, url, browser, resp, linkData, outcome>>

\* lines 126 / 141: page.click of the submit button
LoginClick ==
    /\ pc = "login_click"
    /\ \/ /\ \E u \in Urls : url' = u
          /\ pc' = "login_wait"
          /\ hist' = TouchForm(hist)
          /\ UNCHANGED <<rt, conv, thrown>>
       \/ /\ FnThrows(Err("click", rt.calls), "auth", TouchForm(hist))
          /\ UNCHANGED url
    /\ UNCHANGED <<cfg, feed, io, which, browser, resp, linkData, outcome>>

\* lines 127 / 142: page.waitForURL('**/admin**') resolves once the URL
\* matches, and throws when the 10 s run out first
LoginWaitForURL ==
    /\ pc = "login_wait"
    /\ \/ \E u \in Urls :
            /\ MatchesAdmin(u)
            /\ url' = u
            /\ FnReturns("conv_start", [TouchForm(hist) EXCEPT !.loginUrl = u])
       \/ /\ \E u \in Urls : ~MatchesAdmin(u) /\ url' = u
          /\ FnThrows(Err("waitForURL timeout", rt.calls), "auth", TouchForm(hist))
    /\ UNCHANGED <<cfg, feed, io, which, browser, resp, linkData, outcome>>

\* lines 147-148: the convergence stage begins with a fresh retry call
ConvStart ==
    /\ pc = "conv_start"
    /\ rt' = NewRetry(DefaultMaxRetries, DefaultDelay)
    /\ which' = "conv"
    /\ pc' = "retry_head"
    /\ hist' = [hist EXCEPT !.convStarted = TRUE]
    /\ UNCHANGED <<cfg, feed, io, url, browser, conv, resp, linkData, thrown, outcome>>

\* lines 149-150: previousHeight = 0 and the first measurement
ConvMeasureFirst ==
    /\ pc = "conv_measure0"
    /\ \/ /\ \E h \in MeasuredHeights(feed, conv.measured) :
               conv' = [previousHeight |-> 0, currentHeight |-> h,
                        measured |-> <<h>>, scrolls |-> 0]
          /\ pc' = "conv_while"
          /\ UNCHANGED <<rt, thrown, hist>>
       \/ FnThrows(Err("evaluate scrollHeight", rt.calls), "convergence", hist)
    /\ UNCHANGED <<cfg, feed, io, which, url, browser, resp, linkData, outcome>>

\* line 152: the loop condition; when it fails the closure returns (line 158)
ConvWhile ==
    /\ pc = "conv_while"
    /\ IF HeightGrows(conv.currentHeight, conv.previousHeight)
       THEN /\ pc' = "conv_scroll"
            /\ UNCHANGED hist
       ELSE /\ pc' = "conv_return"
            /\ hist' = [hist EXCEPT !.loopExited = TRUE]
    /\ UNCHANGED <<cfg, feed, io, rt, which, url, browser, conv, resp, linkData, thrown, outcome>>

\* lines 153-154: scroll to the bottom and wait the settle interval
ConvScroll ==
    /\ pc = "conv_scroll"
    /\ (feed = "any" \/ conv.scrolls < MaxScrolls)
    /\ \/ /\ conv' = [conv EXCEPT !.scrolls = @ + 1]
          /\ pc' = "conv_measure"
          /\ UNCHANGED <<rt, thrown, hist>>
       \/ FnThrows(Err("evaluate scrollTo", rt.calls), "convergence", hist)
    /\ UNCHANGED <<cfg, feed, io, which, url, browser, resp, linkData, outcome>>

\* lines 155-156: previousHeight = currentHeight and the next measurement
ConvMeasure ==
    /\ pc = "conv_measure"
    /\ \/ /\ \E h \in MeasuredHeights(feed, conv.measured) :
               conv' = [conv EXCEPT !.previousHeight = conv.currentHeight,
                                    !.currentHeight = h,
                                    !.measured = Append(@, h)]
          /\ pc' = "conv_while"
          /\ UNCHANGED <<rt, thrown, hist>>
       \/ FnThrows(Err("evaluate scrollHeight", rt.calls), "convergence", hist)
    /\ UNCHANGED <<cfg, feed, io, which, url, browser, resp, linkData, outcome>>

\* line 158 with line 17: the closure returns and retry returns its result
ConvReturn ==
    /\ pc = "conv_return"
    /\ FnReturns("extract", hist)
    /\ UNCHANGED <<cfg, feed, io, which, url, browser, resp, linkData, outcome>>

\* lines 162-194: page.evaluate of the extraction script
Extract ==
    /\ pc = "extract"
    /\ \/ /\ \E doc \in Docs, reading \in ClickReadings :
               linkData' = ExtractLinks(doc, reading)
          /\ pc' = "send_fetch"
          /\ hist' = [hist EXCEPT !.extracted = TRUE]
          /\ UNCHANGED thrown
       \/ /\ thrown' = MainCatch(Err("evaluate extract", 0))
          /\ pc' = "finally"
          /\ hist' = [hist EXCEPT !.failedIn = "extraction"]
          /\ UNCHANGED linkData
    /\ UNCHANGED <<cfg, feed, io, rt, which, url, browser, conv, resp, outcome>>

\* lines 199-204, 59-65: sendToWebhook issues the POST
SendFetch ==
    /\ pc = "send_fetch"
    /\ \/ /\ \E st \in Statuses, b \in Bodies :
               resp' = [status |-> st, body |-> b, read |-> FALSE]
          /\ pc' = "send_text"
          /\ hist' = [hist EXCEPT !.posts = @ + 1, !.answered = TRUE]
          /\ UNCHANGED thrown
       \/ /\ thrown' = MainCatch(SendToWebhookCatch(Err("fetch failed", 0)))
          /\ pc' = "finally"
          /\ hist' = [hist EXCEPT !.posts = @ + 1, !.failedIn = "delivery"]
          /\ UNCHANGED resp
    /\ UNCHANGED <<cfg, feed, io, rt, which, url, browser, conv, linkData, outcome>>

\* lines 67-79, 204-205: the body is read, then the status decides
SendReadText ==
    /\ pc = "send_text"
    /\ \/ /\ resp' = [resp EXCEPT !.read = TRUE]
          /\ IF ResponseOk(resp.status)
             THEN /\ hist' = [hist EXCEPT !.delivered = TRUE, !.returned = resp.body]
                  /\ UNCHANGED thrown
             ELSE /\ thrown' = MainCatch(SendToWebhookCatch(WebhookFailed(resp.status, resp.body)))
                  /\ hist' = [hist EXCEPT !.failedIn = "delivery"]
       \/ /\ thrown' = MainCatch(SendToWebhookCatch(Err("text failed", 0)))
          /\ hist' = [hist EXCEPT !.failedIn = "delivery"]
          /\ UNCHANGED resp
    /\ pc' = "finally"
    /\ UNCHANGED <<cfg, feed, io, rt, which, url, browser, conv, linkData, outcome>>

\* lines 210-213: finally closes the browser, then main settles
Finally ==
    /\ pc = "finally"
    /\ browser' = "closed"
    /\ hist' = [hist EXCEPT !.closeCalls = @ + 1]
    /\ pc' = "settled"
    /\ \/ outcome' = IF thrown = NoError
                     THEN [outcome EXCEPT !.state = "resolved"]
                     ELSE [outcome EXCEPT !.state = "rejected", !.error = thrown]
       \/ outcome' = [outcome EXCEPT !.state = "rejected", !.error = Err("close", 0)]
    /\ UNCHANGED <<cfg, feed, io, rt, which, url, conv, resp, linkData, thrown>>

\* lines 216-219: main().catch(...) calls process.exit(1)
ExitOnRejection ==
    /\ pc = "settled"
    /\ which # "solo"
    /\ outcome.state = "rejected"
    /\ pc' = "exited"
    /\ outcome' = [outcome EXCEPT !.exitCode = 1]
    /\ UNCHANGED <<cfg, feed, io, rt, which, url, browser, conv, resp, linkData, thrown, hist>>

Next ==
    \/ CheckWebhookUrl \/ Launch \/ NewContext \/ NewPage \/ EnterTry \/ NoCookieLogin
    \/ AddCookies \/ CookieGoto
    \/ RetryHead
    \/ LoginGoto \/ LoginFillEmail \/ LoginFillPassword \/ LoginClick \/ LoginWaitForURL
    \/ ConvStart \/ ConvMeasureFirst \/ ConvWhile \/ ConvScroll \/ ConvMeasure \/ ConvReturn
    \/ Extract \/ SendFetch \/ SendReadText
    \/ Finally \/ ExitOnRejection

Spec == Init /\ [][Next]_vars

----------------------------------------------------------------------------
\* SpecConv: main from the start of the convergence stage (line 147), after
\* a successful cookie authentication, on a page whose height never settles.

InitConv ==
    /\ cfg = [cookie |-> TRUE, email |-> FALSE, password |-> FALSE, webhook |-> TRUE]
    /\ pc = "conv_start"
    /\ which = "none"
    /\ rt = NewRetry(DefaultMaxRetries, DefaultDelay)
    /\ url = UrlAdmin
    /\ browser = "open"
    /\ conv = NoConv
    /\ resp = NoResp
    /\ linkData = <<>>
    /\ thrown = NoError
    /\ outcome = NoOutcome
    /\ hist = [NoHist EXCEPT !.cookieStage = "ok", !.cookieUrl = UrlAdmin, !.cookieGotos = 1]
    /\ feed \in {"grows", "oscHigh", "oscLow"}
    /\ io = NoIo

NextConv ==
    \/ ConvStart \/ RetryHead
    \/ ConvMeasureFirst \/ ConvWhile \/ ConvScroll \/ ConvMeasure \/ ConvReturn
    \/ Extract \/ SendFetch \/ SendReadText
    \/ Finally \/ ExitOnRejection

SpecConv == InitConv /\ [][NextConv]_vars

----------------------------------------------------------------------------
\* SpecCookies: parseCookies (lines 34-54) on its own. A string is the
\* sequence of its characters.

CookieChars == {"a", "b", "=", ";", " "}
\* line 39: const [name, value] = pair.trim().split('=')
NameValue(pair) ==
    LET parts == Split(Trim(pair), "=")
    IN  [name |-> parts[1],
         value |-> IF Len(parts) >= 2 THEN parts[2] ELSE Undefined]

\* lines 41-49: the cookie object pushed for a pair
CookieObject(nv) ==
    [name |-> Trim(nv.name), value |-> Trim(nv.value),
     domain |-> ".linktr.ee", path |-> "/",
     httpOnly |-> FALSE, secure |-> TRUE, sameSite |-> "Lax"]

RECURSIVE CookiesOf(_)
\* lines 38-51: the loop over the pairs
CookiesOf(pairs) ==
    IF pairs = <<>> THEN <<>>
    ELSE LET nv == NameValue(Head(pairs))
         IN  (IF Truthy(nv.name) /\ Truthy(nv.value) THEN <<CookieObject(nv)>> ELSE <<>>)
             \o CookiesOf(Tail(pairs))

\* lines 34-54
parseCookies(cookieString) == CookiesOf(Split(cookieString, ";"))

InitCookies ==
    /\ cfg = NoCfg
    /\ pc = "parseCookies"
    /\ which = "none"
    /\ rt = NewRetry(DefaultMaxRetries, DefaultDelay)
    /\ url = <<>>
    /\ browser = "none"
    /\ conv = NoConv
    /\ resp = NoResp
    /\ linkData = <<>>
    /\ thrown = NoError
    /\ outcome = NoOutcome
    /\ hist = NoHist
    /\ feed = "any"
    /\ \E str \in Strings(CookieChars, MaxCookieLen) :
          io = [fn |-> "parseCookies", input |-> str, output |-> <<>>, done |-> FALSE]

\* line 104: parseCookies is applied to the string
ParseCookiesCall ==
    /\ pc = "parseCookies"
    /\ io' = [io EXCEPT !.output = parseCookies(io.input), !.done = TRUE]
    /\ pc' = "returned"
    /\ UNCHANGED <<cfg, feed, rt, which, url, browser, conv, resp, linkData, thrown, outcome, hist>>

NextCookies == ParseCookiesCall

SpecCookies == InitCookies /\ [][NextCookies]_vars

----------------------------------------------------------------------------
\* SpecExtract: the extraction script (lines 163-193) on its own, over every
\* document. SpecClicks: the clicks of one card (lines 169-174) on its own.

PureInit(fn, inputs) ==
    /\ cfg = NoCfg
    /\ pc = fn
    /\ which = "none"
    /\ rt = NewRetry(DefaultMaxRetries, DefaultDelay)
    /\ url = <<>>
    /\ browser = "none"
    /\ conv = NoConv
    /\ resp = NoResp
    /\ linkData = <<>>
    /\ thrown = NoError
    /\ outcome = NoOutcome
    /\ hist = NoHist
    /\ feed = "any"
    /\ \E x \in inputs : io = [fn |-> fn, input |-> x, output |-> <<>>, done |-> FALSE]

InitExtract == PureInit("extract", AllDocs)

\* lines 162-194: the script runs over the cards of the document
ExtractCall ==
    /\ pc = "extract" /\ io.fn = "extract"
    /\ \E reading \in ClickReadings :
          io' = [io EXCEPT !.output = ExtractLinks(io.input, reading), !.done = TRUE]
    /\ pc' = "returned"
    /\ UNCHANGED <<cfg, feed, rt, which, url, browser, conv, resp, linkData, thrown, outcome, hist>>

NextExtract == ExtractCall

SpecExtract == InitExtract /\ [][NextExtract]_vars

\* The descendants of a card that the click search looks at.
SmallTexts == {<<>>, <<"2">>, <<"1", " ", "click">>, <<"2", "1", " ", " ", "click">>}
ClickParts ==
    {<<>>}
    \union {<<e>> : e \in ClickElements(Texts)}
    \union {<<e1, e2>> : e1 \in ClickElements(SmallTexts), e2 \in ClickElements(SmallTexts)}

InitClicks == PureInit("clicks", ClickParts)

\* lines 169-174: the click element is chosen and its number parsed
ClicksCall ==
    /\ pc = "clicks" /\ io.fn = "clicks"
    /\ \E reading \in ClickReadings :
          io' = [io EXCEPT !.output = <<ClickCount(io.input, reading)>>, !.done = TRUE]
    /\ pc' = "returned"
    /\ UNCHANGED <<cfg, feed, rt, which, url, browser, conv, resp, linkData, thrown, outcome, hist>>

NextClicks == ClicksCall

SpecClicks == InitClicks /\ [][NextClicks]_vars

----------------------------------------------------------------------------
\* Observations on a retry frame.

AllFailed(r) == \A k \in 1..Len(r.fnLog) : ~r.fnLog[k].ok
FirstSuccess(r, k) ==
    /\ k \in 1..Len(r.fnLog)
    /\ r.fnLog[k].ok
    /\ \A j \in 1..(k - 1) : ~r.fnLog[j].ok

\* C1: for every maxRetries = n >= 1, when every invocation of fn fails,
\* retry invokes fn exactly n times and rejects with the error thrown by the
\* n-th invocation; it never invokes fn more than n times.
C1_AlwaysFailing ==
    (which = "solo" /\ rt.maxRetries >= 1) =>
        /\ rt.calls <= rt.maxRetries
        /\ (pc = "settled" /\ AllFailed(rt)) =>
              /\ rt.calls = rt.maxRetries
              /\ Len(rt.fnLog) = rt.maxRetries
              /\ outcome.state = "rejected"
              /\ outcome.error = rt.fnLog[rt.maxRetries].error
              /\ outcome.error.call = rt.maxRetries

C1_Witness ==
    /\ which = "solo" /\ pc = "settled"
    /\ rt.maxRetries = 3 /\ rt.calls = 3 /\ AllFailed(rt)
    /\ outcome.state = "rejected"
    /\ rt.fnLog[1].error.kind # rt.fnLog[3].error.kind

\* C2: for every n >= 1, when the first successful invocation of fn is the
\* k-th, retry has invoked fn exactly k times, resolves with that
\* invocation's result, and has waited only after the k-1 failures before it.
C2_FirstSuccess ==
    (which = "solo" /\ rt.maxRetries >= 1 /\ pc = "settled") =>
        \A k \in 1..rt.maxRetries :
            FirstSuccess(rt, k) =>
                /\ rt.calls = k
                /\ Len(rt.fnLog) = k
                /\ Len(rt.waits) = k - 1
                /\ outcome.state = "resolved"
                /\ outcome.value = rt.fnLog[k].value

C2_Witness ==
    /\ which = "solo" /\ pc = "settled"
    /\ rt.maxRetries = 3 /\ FirstSuccess(rt, 2)
    /\ rt.calls = 2 /\ outcome.state = "resolved" /\ outcome.value = "r2"

----------------------------------------------------------------------------
\* Observations on a run of main.

LoginPcs == {"login_goto", "login_email", "login_password", "login_click", "login_wait"}
ConvPcs == {"conv_start", "conv_measure0", "conv_while", "conv_scroll", "conv_measure", "conv_return"}
LaterPcs == {"extract", "send_fetch", "send_text"}
EndPcs == {"finally", "settled", "exited"}

\* The session is authenticated: the cookie navigation completed on a URL
\* without /login, or a waitForURL of the login sequence completed on a URL
\* with /admin.
Authenticated ==
    \/ /\ hist.cookieStage = "ok"
       /\ hist.cookieUrl # <<>>
       /\ ~UrlIncludes(hist.cookieUrl, "login")
    \/ /\ hist.loginUrl # <<>>
       /\ UrlIncludes(hist.loginUrl, "admin")

PairComplete == cfg.email /\ cfg.password
Answered2xx == hist.answered /\ resp.read /\ resp.status >= 200 /\ resp.status <= 299

\* C3: in every reachable state, the convergence stage has started (and
\* likewise extraction or delivery has been reached) only if the session is
\* authenticated by the cookie navigation or by a completed login attempt.
C3_ConvergenceOnlyAuthenticated ==
    (\/ hist.convStarted
     \/ (pc \in ConvPcs \union LaterPcs)
     \/ (which = "conv")
     \/ hist.extracted
     \/ hist.posts > 0) => Authenticated

C3_Witness ==
    /\ pc = "conv_scroll"
    /\ hist.cookieStage = "redirect"
    /\ hist.loginAttempts = 3
    /\ hist.loginUrl = UrlAdmin

\* C4: when a cookie is configured and the dashboard navigation completes
\* without a login redirect, no login-form interaction and no login attempt
\* ever happens, whatever the credentials; and once the webhook has answered
\* 2xx exactly one POST has been issued and the batch is delivered.
C4_ScenarioA ==
    (cfg.cookie /\ hist.cookieStage = "ok") =>
        /\ hist.loginForm = 0
        /\ hist.loginAttempts = 0
        /\ pc \notin LoginPcs \union {"noCookie"}
        /\ which # "login"
        /\ Answered2xx => (hist.posts = 1 /\ hist.delivered /\ thrown = NoError)
        /\ (pc = "settled" /\ hist.failedIn = "none") => (hist.posts = 1 /\ hist.delivered)

C4_Witness ==
    /\ cfg.cookie /\ PairComplete
    /\ hist.cookieStage = "ok"
    /\ pc = "settled" /\ outcome.state = "resolved"
    /\ Answered2xx /\ hist.posts = 1 /\ hist.loginForm = 0

\* C5: when a cookie is configured, the dashboard navigation ends on a login
\* redirect and both credentials are configured, the run does not fail on
\* the cookie: the login sequence runs under retry with the default policy,
\* and once a login attempt has succeeded and the webhook has answered 2xx
\* exactly one POST has been issued and the batch is delivered.
C5_ScenarioB ==
    (cfg.cookie /\ hist.cookieStage = "redirect" /\ PairComplete) =>
        /\ thrown.kind # "Cookie authentication failed and no login credentials available"
        /\ which \in {"login", "conv"}
        /\ (which = "login" => rt.maxRetries = DefaultMaxRetries)
        /\ (hist.loginAttempts >= 1 \/ (pc = "retry_head" /\ which = "login" /\ rt.calls = 0))
        /\ Answered2xx =>
              (hist.loginUrl # <<>> /\ hist.posts = 1 /\ hist.delivered /\ thrown = NoError)
        /\ (pc = "settled" /\ hist.failedIn = "none") =>
              (hist.loginUrl # <<>> /\ hist.posts = 1 /\ hist.delivered)

C5_Witness ==
    /\ cfg.cookie /\ PairComplete
    /\ hist.cookieStage = "redirect"
    /\ hist.loginAttempts = 2
    /\ pc = "settled" /\ outcome.state = "resolved"
    /\ Answered2xx /\ hist.posts = 1

\* C6: with an incomplete credential pair the login form is never
\* attempted; without a cookie the run fails with 'No authentication method
\* available', with a cookie whose authentication failed it fails with
\* 'Cookie authentication failed and no login credentials available'; in
\* both cases no convergence, no extraction and no POST occur.
C6_NoAuthMethod ==
    ~PairComplete =>
        /\ hist.loginForm = 0 /\ hist.loginAttempts = 0 /\ which # "login"
        /\ (~cfg.cookie /\ pc \in EndPcs /\ hist.failedIn # "startup") =>
              /\ thrown = Err("No authentication method available", 0)
              /\ ~hist.convStarted /\ ~hist.extracted /\ hist.posts = 0
              /\ (pc # "finally" => outcome.state = "rejected")
        /\ (cfg.cookie /\ hist.cookieStage \in {"redirect", "error"}) =>
              /\ pc \in EndPcs
              /\ thrown = Err("Cookie authentication failed and no login credentials available", 0)
              /\ ~hist.convStarted /\ ~hist.extracted /\ hist.posts = 0
              /\ (pc # "finally" => outcome.state = "rejected")

C6_Witness ==
    /\ cfg.cookie /\ cfg.email /\ ~cfg.password
    /\ hist.cookieStage = "redirect"
    /\ pc = "exited"
    /\ outcome.error.kind = "Cookie authentication failed and no login credentials available"

C6_WitnessNoCookie ==
    /\ ~cfg.cookie /\ ~cfg.email /\ cfg.password
    /\ pc = "exited"
    /\ outcome.error.kind = "No authentication method available"

\* C7: every time a browser has been acquired, browser.close() has been
\* called by the time main settles, whatever step failed after the launch.
C7_BrowserClosedOnEveryExit ==
    (pc \in {"settled", "exited"} /\ browser # "none") =>
        (browser = "closed" /\ hist.closeCalls >= 1)

\* C8: the webhook POST is issued at most once, and only after the session
\* was authenticated, a convergence attempt ran to its loop exit and the
\* extraction returned; a run that fails in authentication, convergence or
\* extraction issues no POST; the stages follow one another.
C8_DeliveryLast ==
    /\ hist.posts <= 1
    /\ (hist.posts = 1 \/ pc \in {"send_fetch", "send_text"}) =>
          (Authenticated /\ hist.loopExited /\ hist.extracted)
    /\ hist.failedIn \in {"startup", "auth", "convergence", "extraction"} => hist.posts = 0
    /\ hist.extracted => hist.loopExited
    /\ pc = "extract" => hist.loopExited
    /\ hist.convStarted => (pc \notin LoginPcs /\ which # "login")
    /\ (pc \in LoginPcs \union ConvPcs \union {"retry_head", "extract"}) =>
          (~hist.extracted /\ hist.posts = 0)

C8_Witness ==
    /\ hist.posts = 1 /\ hist.extracted /\ hist.loopExited
    /\ hist.convAttempts = 3
    /\ Len(linkData) = 2
    /\ pc = "settled"

C8_WitnessFailed ==
    /\ hist.failedIn = "convergence" /\ hist.posts = 0 /\ pc = "exited"

\* C9: once the webhook has answered and the body is read, exactly one POST
\* has been issued; on a non-2xx status sendToWebhook fails with the error
\* that carries that status and body, and the run fails; on a 2xx status it
\* returns the body text.
C9_WebhookStatus ==
    (hist.answered /\ resp.read) =>
        /\ hist.posts = 1
        /\ pc \in EndPcs
        /\ IF resp.status >= 200 /\ resp.status <= 299
           THEN /\ thrown = NoError
                /\ hist.returned = resp.body
           ELSE /\ thrown = [kind |-> "Webhook failed", status |-> resp.status,
                             body |-> resp.body, call |-> 0]
                /\ hist.failedIn = "delivery"
                /\ hist.returned = "undefined"
                /\ (pc # "finally" => outcome.state = "rejected")
                /\ (pc = "exited" => outcome.exitCode = 1)

C9_Witness ==
    /\ pc = "exited"
    /\ resp = [status |-> 500, body |-> "error", read |-> TRUE]
    /\ outcome.error = [kind |-> "Webhook failed", status |-> 500, body |-> "error", call |-> 0]
    /\ hist.posts = 1

C9_WitnessOk ==
    /\ pc = "settled" /\ outcome.state = "resolved"
    /\ resp.status = 299 /\ resp.read /\ hist.returned = "ok"

\* The measurement before the k-th one of an attempt; the closure starts
\* from previousHeight = 0.
Before(m, k) == IF k = 1 THEN 0 ELSE m[k - 1]

\* C10 as stated: a convergence attempt stops at, and only at, the first
\* measurement that equals the one before it.
C10_StopsExactlyOnEqual ==
    /\ (pc = "conv_return") =>
          conv.measured[Len(conv.measured)] = Before(conv.measured, Len(conv.measured))
    /\ (pc \in {"conv_scroll", "conv_measure"}) =>
          \A k \in 1..Len(conv.measured) : conv.measured[k] # Before(conv.measured, k)

\* C10 as amended: a convergence attempt stops at, and only at, the first
\* measurement that does not exceed the one before it (the first one is
\* compared with 0), after one scroll per measurement but the first; for
\* the measurements 100, 200, 200 it performs exactly 2 scrolls.
C10_StopsWhenNotGrowing ==
    LET m == conv.measured
        n == Len(conv.measured)
    IN  /\ (pc \in {"conv_scroll", "conv_measure"}) =>
              /\ n >= 1
              /\ \A k \in 1..n : m[k] > Before(m, k)
        /\ (pc \in {"conv_while", "conv_return"}) =>
              /\ n >= 1
              /\ \A k \in 1..(n - 1) : m[k] > Before(m, k)
        /\ (pc = "conv_return") => m[n] <= Before(m, n)
        /\ (pc \in {"conv_while", "conv_scroll", "conv_return"}) => conv.scrolls = n - 1
        /\ (pc = "conv_measure") => conv.scrolls = n
        /\ (pc = "conv_return" /\ m = <<100, 200, 200>>) => conv.scrolls = 2

C10_Witness ==
    /\ pc = "conv_return"
    /\ conv.measured = <<100, 200, 200>>
    /\ conv.scrolls = 2

C10_WitnessShrinks ==
    /\ pc = "conv_return"
    /\ conv.measured = <<100, 300, 200>>

\* C11 as stated: on a page whose height grows at every measurement, or
\* oscillates for ever, no convergence attempt leaves its loop, so
\* extraction and delivery are never reached.
C11_NeverStabilisesNeverExits ==
    (feed \in {"grows", "oscHigh", "oscLow"}) =>
        (pc # "conv_return" /\ ~hist.loopExited /\ ~hist.extracted /\ hist.posts = 0)

\* C11 as amended: on a page whose height grows at every measurement no
\* convergence attempt ever leaves its loop (there is no iteration cap), so
\* extraction and delivery are never reached and the browser is closed only
\* when the stage failed on errors; on a page whose height oscillates the
\* loop is left at the first measurement that is lower than the one before.
C11_GrowthNeverExits ==
    /\ (feed = "grows") =>
          /\ pc \notin {"conv_return", "extract", "send_fetch", "send_text"}
          /\ ~hist.loopExited /\ ~hist.extracted /\ hist.posts = 0
          /\ (pc = "conv_while" => conv.currentHeight > conv.previousHeight)
          /\ (hist.closeCalls > 0 => (hist.failedIn = "convergence" /\ hist.convAttempts = 3))
    /\ (feed = "oscHigh" /\ pc \in ConvPcs) =>
          /\ Len(conv.measured) <= 2
          /\ (Len(conv.measured) = 2 => pc \in {"conv_while", "conv_return"})
    /\ (feed = "oscLow" /\ pc \in ConvPcs) =>
          /\ Len(conv.measured) <= 3
          /\ (Len(conv.measured) = 3 => pc \in {"conv_while", "conv_return"})

C11_Witness ==
    /\ feed = "grows"
    /\ pc = "conv_scroll"
    /\ conv.scrolls = MaxScrolls
    /\ conv.currentHeight = 100 * (MaxScrolls + 1)

C11_WitnessOscillation ==
    /\ feed = "oscLow"
    /\ conv.measured = <<100, 200, 100>>
    /\ pc = "conv_return"

\* C12 as stated: no run fails because of a navigation error, the cookie
\* navigation to the dashboard included, or a convergence error unless the
\* failing step has been attempted 3 times.
C12_EveryNavigationRetried ==
    /\ (hist.failedIn = "convergence") => hist.convAttempts = DefaultMaxRetries
    /\ (hist.failedIn = "auth" /\ hist.loginAttempts > 0) =>
          hist.loginAttempts = DefaultMaxRetries
    /\ (hist.failedIn = "auth" /\ hist.loginAttempts = 0
          /\ hist.cookieError.kind = "goto dashboard") =>
          hist.cookieGotos = DefaultMaxRetries

\* C12 as amended: a run fails in the convergence stage, or in the
\* credential-login sequence, only after the failing closure has been
\* attempted 3 times; the cookie navigation to the dashboard is attempted
\* once and not retried, and when it fails without credentials the run
\* fails at once with the 'no login credentials available' error.
C12_RetriedUnderRetryOnly ==
    /\ (hist.failedIn = "convergence") =>
          (hist.convAttempts = DefaultMaxRetries /\ Len(rt.fnLog) = DefaultMaxRetries
           /\ AllFailed(rt))
    /\ (hist.failedIn = "auth" /\ hist.loginAttempts > 0) =>
          (hist.loginAttempts = DefaultMaxRetries /\ Len(rt.fnLog) = DefaultMaxRetries
           /\ AllFailed(rt))
    /\ hist.cookieGotos <= 1
    /\ (hist.cookieError.kind = "goto dashboard" /\ ~PairComplete) =>
          /\ hist.cookieGotos = 1
          /\ hist.failedIn = "auth"
          /\ thrown.kind = "Cookie authentication failed and no login credentials available"

C12_Witness ==
    /\ hist.failedIn = "convergence"
    /\ hist.convAttempts = 3
    /\ hist.cookieError.kind = "goto dashboard"
    /\ pc = "exited"

C12_WitnessCookie ==
    /\ hist.cookieError.kind = "goto dashboard" /\ ~PairComplete
    /\ hist.cookieGotos = 1
    /\ pc = "exited"

\* C20: every error of the cookie stage, whether the login redirect, a
\* failure of the cookie injection or a failure of the dashboard navigation,
\* is handled alike: with both credentials the credential login runs under
\* retry and the cookie-stage error is never what the run fails with;
\* without them the run fails with the 'no login credentials available'
\* error, never with the cookie-stage error.
C20_CookieErrorsSwallowed ==
    (hist.cookieStage \in {"redirect", "error"}) =>
        /\ hist.cookieError.kind \in {"Cookie authentication failed - redirected to login",
                                      "addCookies", "goto dashboard"}
        /\ thrown # hist.cookieError
        /\ outcome.error # hist.cookieError
        /\ IF cfg.email /\ cfg.password
           THEN /\ which \in {"login", "conv"}
                /\ (which = "login" => rt.maxRetries = DefaultMaxRetries)
                /\ (hist.loginAttempts >= 1 \/ (pc = "retry_head" /\ rt.calls = 0))
                /\ thrown.kind # "Cookie authentication failed and no login credentials available"
           ELSE /\ pc \in EndPcs
                /\ thrown = Err("Cookie authentication failed and no login credentials available", 0)
                /\ hist.loginAttempts = 0
                /\ (pc # "finally" => outcome.state = "rejected")

C20_Witness ==
    /\ hist.cookieError.kind = "addCookies"
    /\ cfg.email /\ cfg.password
    /\ hist.loginAttempts = 1
    /\ pc = "conv_while"

C20_WitnessNoCredentials ==
    /\ hist.cookieError.kind = "goto dashboard"
    /\ ~cfg.email
    /\ pc = "exited"
    /\ outcome.error.kind = "Cookie authentication failed and no login credentials available"

\* What C13 describes: a segment is cut at its first '=' only; the name is
\* the trimmed text before it, the value the trimmed text after it; a
\* segment without '=', with an empty name or with an empty value is dropped.
FirstEquals(str) ==
    IF \E k \in 1..Len(str) : str[k] = "="
    THEN CHOOSE k \in 1..Len(str) : str[k] = "=" /\ \A j \in 1..(k - 1) : str[j] # "="
    ELSE 0

SegmentPair(seg) ==
    LET k == FirstEquals(seg)
    IN  IF k = 0 THEN <<>>
        ELSE LET name == Trim(SubSeq(seg, 1, k - 1))
                 value == Trim(SubSeq(seg, k + 1, Len(seg)))
             IN  IF name = <<>> \/ value = <<>> THEN <<>>
                 ELSE <<[name |-> name, value |-> value]>>

RECURSIVE SegmentPairs(_)
SegmentPairs(segs) ==
    IF segs = <<>> THEN <<>> ELSE SegmentPair(Head(segs)) \o SegmentPairs(Tail(segs))

NamesAndValues(cookies) ==
    [k \in 1..Len(cookies) |-> [name |-> cookies[k].name, value |-> cookies[k].value]]

\* C13: for every cookie header string, parseCookies returns, in segment
\* order, one pair per well-formed ';'-separated segment, the segment being
\* split on its first '=' only (the value keeps any further '='), and drops
\* the segments without '=', with an empty name or with an empty value.
C13_SplitsOnFirstEquals ==
    io.done => NamesAndValues(io.output) = SegmentPairs(Split(io.input, ";"))

\* What C14 describes of one card: reading it raised no error, the value of
\* its title element, or else that element's trimmed text, is not empty, and
\* it has an http anchor.
CardTitle(c) ==
    IF ~c.title.present THEN <<>>
    ELSE IF c.title.value # <<>> THEN c.title.value ELSE Trim(c.title.text)
CardIsGood(c) == ~c.broken /\ CardTitle(c) # <<>> /\ c.url # <<>>
GoodIndexes(doc) == {k \in 1..Len(doc) : CardIsGood(doc[k])}
\* the j-th good card of the document, in document order
NthGood(doc, j) ==
    CHOOSE k \in GoodIndexes(doc) : Cardinality({m \in GoodIndexes(doc) : m < k}) = j - 1

\* C14: for every document, the output of the extraction is the
\* document-order subsequence of the cards that raised no error and have a
\* non-empty title and URL; no record has an empty title or URL, a card that
\* raises an error is dropped alone, and a document without cards gives the
\* empty sequence.
C14_ExtractorKeepsGoodCards ==
    (io.fn = "extract" /\ io.done) =>
        /\ Len(io.output) = Cardinality(GoodIndexes(io.input))
        /\ \A j \in 1..Len(io.output) :
              /\ io.output[j].title = CardTitle(io.input[NthGood(io.input, j)])
              /\ io.output[j].url = io.input[NthGood(io.input, j)].url
              /\ io.output[j].title # <<>>
              /\ io.output[j].url # <<>>
        /\ (io.input = <<>> => io.output = <<>>)

C14_Witness ==
    /\ io.fn = "extract" /\ io.done
    /\ Len(io.input) = 2
    /\ io.input[1].broken
    /\ CardIsGood(io.input[2])
    /\ Len(io.output) = 1
    /\ io.output[1].title = <<"Link">>

\* The value of the digits text[i..j], read from the left.
RECURSIVE DecimalValue(_, _, _)
DecimalValue(text, i, j) ==
    IF i > j THEN 0
    ELSE DigitValue(text[i]) * (10 ^ (j - i)) + DecimalValue(text, i + 1, j)

\* The value of the first contiguous run of digits of text, 0 without digits.
FirstRunValue(text) ==
    IF \A k \in 1..Len(text) : text[k] \notin Digits THEN 0
    ELSE LET i == CHOOSE a \in 1..Len(text) :
                     text[a] \in Digits /\ \A b \in 1..(a - 1) : text[b] \notin Digits
             j == CHOOSE a \in i..Len(text) :
                     /\ \A b \in i..a : text[b] \in Digits
                     /\ (a = Len(text) \/ text[a + 1] \notin Digits)
         IN  DecimalValue(text, i, j)

\* C19: for every card, clicks is a non-negative integer, the value of the
\* first contiguous digit group of the text of the selected click element,
\* and 0 when no click element is found or its text holds no digit; the
\* text "1,234 clicks" gives 1.
C19_ClicksFirstDigitGroup ==
    (io.fn = "clicks" /\ io.done) =>
        LET k == SelectClickIndex(io.input)
            clicks == io.output[1]
        IN  /\ clicks \in Nat
            /\ (k = 0 => clicks = 0)
            /\ (k # 0 => clicks = FirstRunValue(io.input[k].text))
            /\ (k # 0 /\ io.input[k].text = ExampleText) => clicks = 1

C19_Witness ==
    /\ io.fn = "clicks" /\ io.done
    /\ io.input = <<[cls |-> FALSE, text |-> ExampleText]>>
    /\ io.output = <<1>>

C19_WitnessPattern ==
    /\ io.fn = "clicks" /\ io.done
    /\ io.input = <<[cls |-> FALSE, text |-> <<"2">>], [cls |-> FALSE, text |-> <<"2", "1", " ", " ", "click">>]>>
    /\ io.output = <<21>>

\* C15: every failure at any stage makes main reject, and a rejected main
\* is followed by process.exit(1); a missing webhook URL is detected before
\* the browser is launched or anything else is done; a run in which nothing
\* failed never exits with status 1.
C15_FailureExitsWithOne ==
    /\ (hist.failedIn # "none" /\ pc \in {"settled", "exited"}) =>
          (outcome.state = "rejected" /\ outcome.error # NoError)
    /\ (hist.failedIn # "none" /\ pc = "finally") => thrown # NoError
    /\ (pc = "settled" /\ outcome.state = "rejected") => ENABLED ExitOnRejection
    /\ (pc = "exited") => (outcome.state = "rejected" /\ outcome.exitCode = 1)
    /\ (outcome.exitCode = 1) => (hist.failedIn # "none" \/ outcome.error.kind = "close")
    /\ (outcome.state = "resolved") => (pc = "settled" /\ outcome.exitCode = 0 /\ ~ENABLED Next)
    /\ (~cfg.webhook /\ pc # "start") =>
          /\ browser = "none"
          /\ hist = [NoHist EXCEPT !.failedIn = "startup"]
          /\ outcome.error.kind = "Missing required environment variable: WEBHOOK_URL"
          /\ pc \in {"settled", "exited"}

C15_Witness ==
    /\ pc = "exited" /\ outcome.exitCode = 1
    /\ hist.failedIn = "extraction"
    /\ outcome.error.kind = "evaluate extract"

C15_WitnessMissingUrl ==
    /\ ~cfg.webhook /\ pc = "exited" /\ outcome.exitCode = 1 /\ browser = "none"

C15_WitnessSuccess ==
    /\ pc = "settled" /\ outcome.state = "resolved" /\ hist.failedIn = "none"
    /\ hist.delivered /\ outcome.exitCode = 0

RECURSIVE SumSeq(_)
SumSeq(q) == IF q = <<>> THEN 0 ELSE Head(q) + SumSeq(Tail(q))

Failures(r) == Cardinality({k \in 1..Len(r.fnLog) : ~r.fnLog[k].ok})

\* C16: the wait after failed attempt k is delay * k; there is no wait
\* before the first attempt, after a successful attempt or after the n-th
\* failed attempt, so an always-failing operation waits delay * n * (n - 1) / 2
\* in all.
C16_LinearDelays ==
    (which = "solo") =>
        /\ \A k \in 1..Len(rt.waits) : rt.waits[k] = rt.delay * k
        /\ (pc = "solo_fn") => Len(rt.waits) = rt.calls - 1
        /\ (pc = "retry_head") => Len(rt.waits) = rt.calls
        /\ (pc = "settled" /\ outcome.state = "resolved") => Len(rt.waits) = Failures(rt)
        /\ (pc = "settled" /\ outcome.state = "rejected") => Len(rt.waits) = Failures(rt) - 1
        /\ (pc = "settled" /\ rt.maxRetries >= 1 /\ AllFailed(rt)) =>
              /\ Len(rt.waits) = rt.maxRetries - 1
              /\ 2 * SumSeq(rt.waits) = rt.delay * rt.maxRetries * (rt.maxRetries - 1)

C16_Witness ==
    /\ which = "solo" /\ pc = "settled"
    /\ rt.maxRetries = 4 /\ rt.delay = 1000 /\ AllFailed(rt)
    /\ rt.waits = <<1000, 2000, 3000>>

\* The login-form interactions made by an attempt that ended as entry says,
\* and those made so far by the attempt standing at pc.
StepsOfEntry(entry) ==
    IF entry.ok THEN 5
    ELSE CASE entry.error.kind = "goto" -> 1
           [] entry.error.kind = "fill email" -> 2
           [] entry.error.kind = "fill password" -> 3
           [] entry.error.kind = "click" -> 4
           [] entry.error.kind = "waitForURL timeout" -> 5
StepsAtPc ==
    CASE pc = "login_email" -> 1
      [] pc = "login_password" -> 2
      [] pc = "login_click" -> 3
      [] pc = "login_wait" -> 4
      [] OTHER -> 0
StepsOfLog(r) == SumSeq([k \in 1..Len(r.fnLog) |-> StepsOfEntry(r.fnLog[k])])

\* C17: the login sequence is run at most 3 times per run, in the one
\* branch that applies; a failing step ends its attempt (the steps after it
\* are not made) and counts as one failed attempt, the next attempt starts
\* again at the navigation, and after the third failed attempt the run fails
\* with that attempt's error without starting convergence.
C17_LoginAtMostThreeTimes ==
    /\ hist.loginAttempts <= DefaultMaxRetries
    /\ (hist.loginAttempts > 0 /\ cfg.cookie) => hist.cookieStage \in {"redirect", "error"}
    /\ (which = "login") =>
          /\ hist.loginAttempts = rt.calls
          /\ hist.loginForm = StepsOfLog(rt) + StepsAtPc
          /\ \A k \in 1..Len(rt.fnLog) : ~rt.fnLog[k].ok => rt.fnLog[k].error.call = k
          /\ (pc \in LoginPcs) => (Len(rt.fnLog) = rt.calls - 1 /\ AllFailed(rt))
          /\ (pc = "retry_head") => (Len(rt.fnLog) = rt.calls /\ AllFailed(rt))
    /\ (hist.failedIn = "auth" /\ hist.loginAttempts > 0) =>
          /\ which = "login"
          /\ hist.loginAttempts = DefaultMaxRetries
          /\ AllFailed(rt)
          /\ thrown = rt.fnLog[DefaultMaxRetries].error
          /\ thrown.call = DefaultMaxRetries
          /\ ~hist.convStarted
    /\ (hist.convStarted /\ hist.loginAttempts > 0) => hist.loginUrl # <<>>

C17_Witness ==
    /\ hist.failedIn = "auth" /\ hist.loginAttempts = 3 /\ pc = "exited"
    /\ rt.fnLog[1].error.kind = "click"
    /\ rt.fnLog[2].error.kind = "goto"
    /\ rt.fnLog[3].error.kind = "waitForURL timeout"
    /\ hist.loginForm = 10
    /\ outcome.error = rt.fnLog[3].error

\* C18: a convergence attempt that fails on a measurement or a scroll is
\* followed by an attempt that starts from scratch, previousHeight 0 and a
\* fresh first measurement; at most 3 attempts are made; the stage is
\* complete as soon as one attempt reaches its loop exit.
C18_ConvergenceRetriedWhole ==
    /\ hist.convAttempts <= DefaultMaxRetries
    /\ (which = "conv") => hist.convAttempts = rt.calls
    /\ (pc = "conv_measure0") => (conv = NoConv /\ Len(rt.fnLog) = rt.calls - 1 /\ AllFailed(rt))
    /\ (pc \in {"conv_while", "conv_scroll", "conv_measure", "conv_return"}) =>
          /\ conv.measured # <<>>
          /\ conv.currentHeight = conv.measured[Len(conv.measured)]
          /\ conv.previousHeight = Before(conv.measured, Len(conv.measured))
          /\ AllFailed(rt)
    /\ (pc = "conv_while" /\ Len(conv.measured) = 1) => conv.previousHeight = 0
    /\ (hist.loopExited) =>
          /\ pc \in {"conv_return"} \union LaterPcs \union EndPcs
          /\ hist.failedIn # "convergence"
          /\ (pc # "conv_return" =>
                (Len(rt.fnLog) = hist.convAttempts /\ rt.fnLog[Len(rt.fnLog)].ok
                 /\ rt.state = "resolved"))
    /\ (pc \in LaterPcs) => hist.loopExited
    /\ (hist.failedIn = "convergence") =>
          (hist.convAttempts = DefaultMaxRetries /\ AllFailed(rt) /\ ~hist.loopExited)

C18_Witness ==
    /\ pc = "conv_while"
    /\ hist.convAttempts = 3
    /\ rt.fnLog[1].error.kind = "evaluate scrollTo"
    /\ rt.fnLog[2].error.kind = "evaluate scrollHeight"
    /\ conv.measured = <<200>> /\ conv.previousHeight = 0

====
